---- MODULE Spec2Model ----
(***************************************************************************)
(* The compiler context of RimmerM/x: the bump arena (Arena), the          *)
(* identifier table and the operator table (Context) of                    *)
(* src/code/compiler/context.cpp, and the terminator classification of     *)
(* src/code/resolve/inst.h.                                                *)
(*                                                                         *)
(* Addresses are natural numbers, 0 is nullptr.  The arena's chunks come   *)
(* from malloc, modelled as first fit over a heap that is a row of blocks  *)
(* of kChunkSize bytes lying next to each other.  Heap memory is modelled  *)
(* byte by byte (mem), a U32 is stored as its four little-endian bytes.    *)
(***************************************************************************)
EXTENDS Integers, Sequences, FiniteSets, TLC

VARIABLES
    buffer,       \* Arena::buffer, the bump pointer
    max,          \* Arena::max, the end of the current chunk
    buffers,      \* Arena::buffers, the chunks the arena recorded
    heap,         \* the malloc'd blocks that are live: a set of [base, size]
    obtained,     \* history: every block malloc returned to the arena, in order
    freeLog,      \* history: every address handed to free(), in order
    destroyed,    \* TRUE once ~Arena has run
    allocs,       \* history: every Arena::alloc call, [p, size, malloced, before, maxBefore]
    mem,          \* the bytes written to the heap, address -> byte
    identifiers,  \* Context::identifiers, Id -> Identifier
    calls,        \* history: every interning call, with the Identifier it built
    found,        \* the result of Context::find, when it was the last call
    ops,          \* Context::ops, Id -> OpProperties
    opLog,        \* history: every addOp call
    opFound,      \* the result of the last Context::findOp
    block,        \* the kinds of the instructions of the block under construction
    closed        \* TRUE once a terminator has been appended

vars == <<buffer, max, buffers, heap, obtained, freeLog, destroyed, allocs, mem,
          identifiers, calls, found, ops, opLog, opFound, block, closed>>

arenaVars == <<buffer, max, buffers, heap, obtained, freeLog, destroyed, allocs>>
nameVars == <<mem, identifiers, calls, found>>
opVars == <<ops, opLog, opFound>>
blockVars == <<block, closed>>

----------------------------------------------------------------------------
(* Bounds of the model. *)

\* The number of Arena::alloc calls of a run of SpecArena.
MaxAllocs == 4
\* The number of interning calls of a run of Spec.
MaxCalls == 2
\* The largest explicit segment count passed to the three-argument addQualifiedName.
MaxSegmentArg == 4
\* The number of addOp calls of a run of SpecOps.
MaxOps == 3
\* The number of instructions appended to a block before its terminator.
MaxInsts == 2

----------------------------------------------------------------------------
(* Constants of the program that context.h and the hash header define. *)

\* Arena::kChunkSize, the size of every chunk the arena mallocs.
kChunkSize == 32
\* The width of the hash accumulator in bits (the program's is 32; the model
\* checker's integers are 32-bit signed, so the accumulator is folded to 16).
HashBits == 16
\* The hash's offset basis and prime: FNV-1a's, folded to HashBits.
HashSeed == 40389
HashPrime == 403
\* sizeof(U32)
SizeofU32 == 4

Null == 0
Uninit == 0 - 1
Dot == 46

Pow2(n) == 2 ^ n

RECURSIVE BitXor(_, _, _)
BitXor(a, b, bits) ==
    IF bits = 0 THEN 0
    ELSE (((a % 2) + (b % 2)) % 2) + 2 * BitXor(a \div 2, b \div 2, bits - 1)

\* Hasher::addByte: one FNV-1a step on the accumulator h.
HasherAddByte(h, b) ==
    (((h \div 256) * 256 + BitXor(h % 256, b, 8)) * HashPrime) % Pow2(HashBits)

\* Hasher::addBytes(chars, count): the bytes in order, from accumulator h.
RECURSIVE HasherAddBytes(_, _)
HasherAddBytes(h, bytes) ==
    IF bytes = <<>> THEN h
    ELSE HasherAddBytes(HasherAddByte(h, Head(bytes)), Tail(bytes))

\* Hasher hash; hash.addBytes(bytes); hash.get()
HashOf(bytes) == HasherAddBytes(HashSeed, bytes)

----------------------------------------------------------------------------
(* The heap and its bytes. *)

NumSlots == MaxAllocs + MaxCalls
HeapBases == {s * kChunkSize : s \in 1..NumSlots}

\* malloc(kChunkSize): the lowest block that is not live.
FreeBases == HeapBases \ {h.base : h \in heap}
Malloc == CHOOSE b \in FreeBases : \A c \in FreeBases : b <= c

\* memcpy(dst, bytes, Len(bytes)) and the store of a sequence of bytes at dst.
\* mem holds the bytes that were written; every other byte is Uninit.
WriteBytes(m, dst, bytes) ==
    [a \in DOMAIN m \cup (dst .. (dst + Len(bytes) - 1)) |->
        IF a >= dst /\ a < dst + Len(bytes) THEN bytes[a - dst + 1] ELSE m[a]]

ReadByte(m, src) == IF src \in DOMAIN m THEN m[src] ELSE Uninit

ReadBytes(m, src, count) == [i \in 1..count |-> ReadByte(m, src + i - 1)]

U32Bytes(v) ==
    <<v % 256, (v \div 256) % 256, (v \div 65536) % 256, (v \div 16777216) % 256>>

ReadU32(m, src) ==
    ReadByte(m, src) + 256 * ReadByte(m, src + 1) + 65536 * ReadByte(m, src + 2)
        + 16777216 * ReadByte(m, src + 3)

WriteU32(m, dst, v) == WriteBytes(m, dst, U32Bytes(v))

----------------------------------------------------------------------------
(* Arena *)

\* A mutant of Arena::alloc: a chunk is recorded in buffers only when it is the first.
ArenaAllocPushFirstOnly(size, base) ==
    LET grow == buffer + size > max
        it == IF grow THEN base ELSE buffer
    IN  [ret |-> it,
         buffer |-> it + size,
         max |-> IF grow THEN base + kChunkSize ELSE max,
         buffers |-> IF grow /\ buffers = <<>> THEN Append(buffers, base) ELSE buffers,
         malloced |-> grow]

\* Arena::alloc(size), with base the address malloc returns if it is called.
ArenaAlloc(size, base) ==
    LET grow == buffer + size > max
        it == IF grow THEN base ELSE buffer
    IN  [ret |-> it,
         buffer |-> it + size,
         max |-> IF grow THEN base + kChunkSize ELSE max,
         buffers |-> IF grow THEN Append(buffers, base) ELSE buffers,
         malloced |-> grow]

\* The arena's variables after Arena::alloc(size) has returned r.
ArenaAllocated(size, base, r) ==
    /\ buffer' = r.buffer
    /\ max' = r.max
    /\ buffers' = r.buffers
    /\ heap' = IF r.malloced THEN heap \cup {[base |-> base, size |-> kChunkSize]} ELSE heap
    /\ obtained' = IF r.malloced THEN Append(obtained, base) ELSE obtained
    /\ allocs' = Append(allocs, [p |-> r.ret, size |-> size, malloced |-> r.malloced,
                                 before |-> buffer, maxBefore |-> max])
    /\ UNCHANGED <<freeLog, destroyed>>

\* The sizes requested of the arena on its own.
AllocSizes == {0, 1, 3, 4, kChunkSize - 4, kChunkSize - 1, kChunkSize, kChunkSize + 1}

Alloc ==
    /\ ~destroyed
    /\ Len(allocs) < MaxAllocs
    /\ \E size \in AllocSizes :
          ArenaAllocated(size, Malloc, ArenaAlloc(size, Malloc))
    /\ UNCHANGED <<nameVars, opVars, blockVars>>

\* Arena::~Arena
ArenaDestroy ==
    /\ ~destroyed
    /\ freeLog' = freeLog \o buffers
    /\ heap' = {h \in heap : \A i \in 1..Len(buffers) : buffers[i] # h.base}
    /\ buffers' = <<>>
    /\ buffer' = Null
    /\ max' = Null
    /\ destroyed' = TRUE
    /\ UNCHANGED <<obtained, allocs, nameVars, opVars, blockVars>>

----------------------------------------------------------------------------
(* Context: the identifier table *)

\* A pointer held by an Identifier: into the heap, into a buffer of the caller,
\* null, or never assigned (a field of the local Identifier that no branch sets).
HeapPtr(a) == [space |-> "heap", addr |-> a]
CallerPtr(i) == [space |-> "caller", addr |-> i]
NullPtr == [space |-> "null", addr |-> Null]
UninitPtr == [space |-> "uninit", addr |-> Null]

\* The names the callers intern, each in a buffer of its own that the caller keeps:
\* "abc", "a.b", "a.bc.def".
Names ==
    << <<97, 98, 99>>,
       <<97, Dot, 98>>,
       <<97, Dot, 98, 99, Dot, 100, 101, 102>> >>

\* The count bytes at a pointer.
Deref(m, ptr, count) ==
    IF ptr.space = "caller" THEN SubSeq(Names[ptr.addr], 1, count)
    ELSE ReadBytes(m, ptr.addr, count)

\* HashMap::add(key, value): the entry of the key is the value added last.
MapAdd(map, key, value) ==
    [k \in DOMAIN map \cup {key} |-> IF k = key THEN value ELSE map[k]]

\* A mutant of the key of addIdentifier: a multi-segment name is keyed by the
\* combination of its segment hashes.
RECURSIVE CombineSegmentHashes(_, _, _, _)
CombineSegmentHashes(m, id, i, h) ==
    IF i >= id.segmentCount THEN h
    ELSE CombineSegmentHashes(m, id, i + 1,
            HasherAddByte(h, ReadU32(m, id.segmentHashes.addr + SizeofU32 * i) % 256))

addIdentifierKeyFromSegments(m, id) ==
    IF id.segmentCount = 1 THEN id.segmentHash
    ELSE CombineSegmentHashes(m, id, 0, HashSeed)

\* Context::addIdentifier: the key the identifier is stored under and returned.
addIdentifierKey(m, id) ==
    IF id.segmentCount = 1 THEN id.segmentHash
    ELSE HashOf(Deref(m, id.text, id.textLength))

\* Context::addUnqualifiedName(chars, count), chars the caller's buffer i.
UnqualifiedName(i) ==
    [text |-> CallerPtr(i),
     textLength |-> Len(Names[i]),
     segmentCount |-> 1,
     segments |-> NullPtr,
     segmentHash |-> HashOf(Names[i]),
     segmentHashes |-> UninitPtr]

\* The while loop of addQualifiedName: from offset p to the next '.' or the end.
RECURSIVE ScanSegment(_, _, _)
ScanSegment(chars, p, hash) ==
    IF p < Len(chars) /\ chars[p + 1] # Dot
    THEN ScanSegment(chars, p + 1, HasherAddByte(hash, chars[p + 1]))
    ELSE [p |-> p, hash |-> hash]

\* The for loop of addQualifiedName from segment i on: the memory after it.
RECURSIVE SegmentLoop(_, _, _, _, _, _)
SegmentLoop(m, chars, data, segmentCount, i, p) ==
    IF i >= segmentCount THEN m
    ELSE LET m1 == WriteU32(m, data + SizeofU32 * i, p)
             s == ScanSegment(chars, p, HashSeed)
             m2 == WriteU32(m1, data + SizeofU32 * (segmentCount + i), s.hash)
         IN  SegmentLoop(m2, chars, data, segmentCount, i + 1, s.p)

\* A mutant of addQualifiedName: the single-segment branch keeps the caller's pointer.
QualifiedNameKeepsPointer(i, segmentCount, base) ==
    LET chars == Names[i]
        count == Len(chars)
    IN  IF segmentCount <= 1
        THEN LET r == ArenaAlloc(count, base)
             IN  [r |-> r, size |-> count,
                  mem |-> WriteBytes(mem, r.ret, chars),
                  id |-> [text |-> CallerPtr(i),
                          textLength |-> count,
                          segmentCount |-> 1,
                          segments |-> NullPtr,
                          segmentHash |-> HashOf(chars),
                          segmentHashes |-> UninitPtr]]
        ELSE LET size == count + 2 * (segmentCount * SizeofU32)
                 r == ArenaAlloc(size, base)
                 data == r.ret
                 name == data + SizeofU32 * (segmentCount * 2)
                 m1 == WriteBytes(mem, name, chars)
             IN  [r |-> r, size |-> size,
                  mem |-> SegmentLoop(m1, chars, data, segmentCount, 0, 0),
                  id |-> [text |-> HeapPtr(name),
                          textLength |-> count,
                          segmentCount |-> segmentCount,
                          segments |-> HeapPtr(data),
                          segmentHash |-> Uninit,
                          segmentHashes |-> HeapPtr(data + SizeofU32 * segmentCount)]]

\* Context::addQualifiedName(chars, count, segmentCount), chars the caller's buffer
\* i, up to the call of addIdentifier: the arena call, the memory and the Identifier.
QualifiedName(i, segmentCount, base) ==
    LET chars == Names[i]
        count == Len(chars)
    IN  IF segmentCount <= 1
        THEN LET r == ArenaAlloc(count, base)
                 text == r.ret
             IN  [r |-> r, size |-> count,
                  mem |-> WriteBytes(mem, text, chars),
                  id |-> [text |-> HeapPtr(text),
                          textLength |-> count,
                          segmentCount |-> 1,
                          segments |-> NullPtr,
                          segmentHash |-> HashOf(chars),
                          segmentHashes |-> UninitPtr]]
        ELSE LET size == count + 2 * (segmentCount * SizeofU32)
                 r == ArenaAlloc(size, base)
                 data == r.ret
                 name == data + SizeofU32 * (segmentCount * 2)
                 m1 == WriteBytes(mem, name, chars)
             IN  [r |-> r, size |-> size,
                  mem |-> SegmentLoop(m1, chars, data, segmentCount, 0, 0),
                  id |-> [text |-> HeapPtr(name),
                          textLength |-> count,
                          segmentCount |-> segmentCount,
                          segments |-> HeapPtr(data),
                          segmentHash |-> Uninit,
                          segmentHashes |-> HeapPtr(data + SizeofU32 * segmentCount)]]

\* The loop of the two-argument addQualifiedName: 1 + the number of '.' bytes.
RECURSIVE CountSegments(_)
CountSegments(chars) ==
    IF chars = <<>> THEN 1
    ELSE (IF Head(chars) = Dot THEN 1 ELSE 0) + CountSegments(Tail(chars))

\* The table and the history after addIdentifier(id) under memory m.
Interned(fn, i, segmentCount, id, m, request, data) ==
    LET key == addIdentifierKey(m, id)
    IN  /\ identifiers' = MapAdd(identifiers, key, id)
        /\ calls' = Append(calls, [fn |-> fn, chars |-> i, text |-> Names[i],
                                   segmentCount |-> segmentCount, id |-> key,
                                   ident |-> id, request |-> request, data |-> data,
                                   allocsBefore |-> Len(allocs)])
        /\ mem' = m
        /\ found' = <<>>
        /\ UNCHANGED <<opVars, blockVars>>

AddUnqualifiedName ==
    /\ Len(calls) < MaxCalls
    /\ \E i \in DOMAIN Names :
          Interned("addUnqualifiedName", i, 1, UnqualifiedName(i), mem, Uninit, Null)
    /\ UNCHANGED arenaVars

\* addQualifiedName(chars, count, segmentCount) and what it does with q.
QualifiedInterned(fn, i, segmentCount, base) ==
    LET q == QualifiedName(i, segmentCount, base)
    IN  /\ ArenaAllocated(q.size, base, q.r)
        /\ Interned(fn, i, segmentCount, q.id, q.mem, q.size, q.r.ret)

AddQualifiedName ==
    /\ Len(calls) < MaxCalls
    /\ \E i \in DOMAIN Names :
          QualifiedInterned("addQualifiedName", i, CountSegments(Names[i]), Malloc)

AddQualifiedNameSegments ==
    /\ Len(calls) < MaxCalls
    /\ \E i \in DOMAIN Names, segmentCount \in 0..MaxSegmentArg :
          QualifiedInterned("addQualifiedNameSegments", i, segmentCount, Malloc)

\* Context::find(id), for an id that was interned.
Find ==
    /\ \E id \in DOMAIN identifiers :
          found' = <<[id |-> id, ident |-> identifiers[id]]>>
    /\ UNCHANGED <<arenaVars, mem, identifiers, calls, opVars, blockVars>>

----------------------------------------------------------------------------
(* Context: the operator table *)

\* The operator ids the parser registers and looks up: the Ids of "+" and "-".
OpIds == {HashOf(<<43>>), HashOf(<<45>>)}
\* The precedences (U16) and associativities passed to addOp.
Precedences == {0, 3, 9}
Assocs == {"Left", "Right"}

\* map[key] = value
MapAssign(map, key, value) ==
    [k \in DOMAIN map \cup {key} |-> IF k = key THEN value ELSE map[k]]

\* A mutant of findOp: the lookup is ops[op], which enters the default for a
\* missing key.
findOpByIndex(op) ==
    IF op \in DOMAIN ops
    THEN [ret |-> ops[op], ops |-> ops]
    ELSE [ret |-> [prec |-> 9, assoc |-> "Left"],
          ops |-> MapAssign(ops, op, [prec |-> 9, assoc |-> "Left"])]

\* Context::findOp(op): what it returns and the table it leaves.
findOp(op) ==
    IF op \in DOMAIN ops
    THEN [ret |-> ops[op], ops |-> ops]
    ELSE [ret |-> [prec |-> 9, assoc |-> "Left"], ops |-> ops]

\* Context::addOp(op, prec, assoc)
AddOp ==
    /\ Len(opLog) < MaxOps
    /\ \E op \in OpIds, prec \in Precedences, assoc \in Assocs :
          /\ ops' = MapAssign(ops, op, [prec |-> prec, assoc |-> assoc])
          /\ opLog' = Append(opLog, [op |-> op, prec |-> prec, assoc |-> assoc])
    /\ opFound' = <<>>
    /\ UNCHANGED <<arenaVars, nameVars, blockVars>>

FindOp ==
    /\ \E op \in OpIds :
          /\ opFound' = <<[op |-> op, props |-> findOp(op).ret]>>
          /\ ops' = findOp(op).ops
    /\ UNCHANGED <<opLog, arenaVars, nameVars, blockVars>>

----------------------------------------------------------------------------
(* Value::Kind and the blocks built through the factories *)

\* enum Value::Kind in order; an enumerator's value is its position less one.
\* (FirstConst and LastConst name ConstInt and ConstString.)
KindNames ==
    <<"Arg", "ConstInt", "ConstFloat", "ConstString", "FirstInst",
      "InstTrunc", "InstFTrunc", "InstZExt", "InstSExt", "InstFExt",
      "InstAdd", "InstSub", "InstMul", "InstDiv", "InstIDiv", "InstRem", "InstIRem",
      "InstFAdd", "InstFSub", "InstFMul", "InstFDiv",
      "InstICmp", "InstFCmp",
      "InstShl", "InstShr", "InstSar", "InstAnd", "InstOr", "InstXor",
      "InstRecord", "InstTup", "InstFun",
      "InstCall", "InstCallGen", "InstCallDyn", "InstCallDynGen", "InstCallForeign",
      "InstJe", "InstJmp", "InstRet", "InstPhi">>

Kind(name) == (CHOOSE i \in DOMAIN KindNames : KindNames[i] = name) - 1
Kinds == {i - 1 : i \in DOMAIN KindNames}

InstJe == Kind("InstJe")
InstJmp == Kind("InstJmp")
InstRet == Kind("InstRet")
InstPhi == Kind("InstPhi")

\* A mutant of isTerminating: every kind from InstJe on, InstPhi with them.
isTerminatingFromJe(kind) == kind >= InstJe

\* isTerminating(kind)
isTerminating(kind) == kind = InstRet \/ kind = InstJe \/ kind = InstJmp

\* The factories that append an instruction to a block, and the kind each gives it.
Factories ==
    [trunc |-> "InstTrunc", ftrunc |-> "InstFTrunc", zext |-> "InstZExt",
     sext |-> "InstSExt", fext |-> "InstFExt",
     add |-> "InstAdd", sub |-> "InstSub", mul |-> "InstMul", div |-> "InstDiv",
     idiv |-> "InstIDiv", rem |-> "InstRem", irem |-> "InstIRem",
     fadd |-> "InstFAdd", fsub |-> "InstFSub", fmul |-> "InstFMul", fdiv |-> "InstFDiv",
     icmp |-> "InstICmp", fcmp |-> "InstFCmp",
     shl |-> "InstShl", shr |-> "InstShr", sar |-> "InstSar",
     bitand_ |-> "InstAnd", or_ |-> "InstOr", xor_ |-> "InstXor",
     record |-> "InstRecord", tup |-> "InstTup", fun |-> "InstFun",
     call |-> "InstCall", callGen |-> "InstCallGen", callDyn |-> "InstCallDyn",
     callDynGen |-> "InstCallDynGen", callForeign |-> "InstCallForeign",
     je |-> "InstJe", jmp |-> "InstJmp", ret |-> "InstRet", phi |-> "InstPhi"]

Branches == {"je", "jmp", "ret"}

\* A factory other than je, jmp and ret appends its instruction to the block.
AppendInst ==
    /\ ~closed
    /\ Len(block) < MaxInsts
    /\ \E f \in DOMAIN Factories \ Branches :
          block' = Append(block, Kind(Factories[f]))
    /\ UNCHANGED <<closed, arenaVars, nameVars, opVars>>

\* je, jmp or ret is appended last.
AppendTerminator ==
    /\ ~closed
    /\ \E f \in Branches : block' = Append(block, Kind(Factories[f]))
    /\ closed' = TRUE
    /\ UNCHANGED <<arenaVars, nameVars, opVars>>

----------------------------------------------------------------------------
InitArena ==
    /\ buffer = Null
    /\ max = Null
    /\ buffers = <<>>
    /\ heap = {}
    /\ obtained = <<>>
    /\ freeLog = <<>>
    /\ destroyed = FALSE
    /\ allocs = <<>>

Init ==
    /\ InitArena
    /\ mem = <<>>
    /\ identifiers = <<>>
    /\ calls = <<>>
    /\ found = <<>>
    /\ ops = <<>>
    /\ opLog = <<>>
    /\ opFound = <<>>
    /\ block = <<>>
    /\ closed = FALSE

NextArena == Alloc \/ ArenaDestroy

SpecArena == Init /\ [][NextArena]_vars

Next == AddUnqualifiedName \/ AddQualifiedName \/ AddQualifiedNameSegments \/ Find

Spec == Init /\ [][Next]_vars

NextOps == AddOp \/ FindOp

SpecOps == Init /\ [][NextOps]_vars

NextBlock == AppendInst \/ AppendTerminator

SpecBlock == Init /\ [][NextBlock]_vars
----------------------------------------------------------------------------
(* What the properties below read off the histories. *)

LastCall == calls[Len(calls)]
LastAlloc == allocs[Len(allocs)]
CallSet == {calls[j] : j \in DOMAIN calls}
AllocSet == {allocs[j] : j \in DOMAIN allocs}

\* The 1-based positions of the '.' bytes of a text, and the i-th of them.
DotPositions(text) == {q \in DOMAIN text : text[q] = Dot}
NthDot(text, i) ==
    CHOOSE q \in DotPositions(text) :
        Cardinality({r \in DotPositions(text) : r <= q}) = i

\* The byte offset of the first byte of segment i (from 0) of a dotted text, the
\* offset past its last byte, and its bytes.
SegmentStart(text, i) == IF i = 0 THEN 0 ELSE NthDot(text, i)
SegmentEnd(text, i) ==
    IF i = Cardinality(DotPositions(text)) THEN Len(text) ELSE NthDot(text, i + 1) - 1
SegmentBytes(text, i) == SubSeq(text, SegmentStart(text, i) + 1, SegmentEnd(text, i))

\* A byte range lies within a range the arena returned.
InRange(addr, count, a) == addr >= a.p /\ addr + count <= a.p + a.size

\* The operator properties findOp has to return for an id, by the addOp history.
LoggedOps(op) == {j \in DOMAIN opLog : opLog[j].op = op}
ExpectedOp(op) ==
    IF LoggedOps(op) = {} THEN [prec |-> 9, assoc |-> "Left"]
    ELSE LET last == CHOOSE j \in LoggedOps(op) : \A l \in LoggedOps(op) : l <= j
         IN  [prec |-> opLog[last].prec, assoc |-> opLog[last].assoc]

\* How often an address occurs in a sequence of addresses.
Occurrences(seq, x) == Cardinality({j \in DOMAIN seq : seq[j] = x})

----------------------------------------------------------------------------
(* C1 *)

\* C1 (as claimed): when a dotted name of k > 1 segments has just been interned
\* through addQualifiedName, the Identifier has segmentCount = k, segments[i] is the
\* byte offset of the first byte of segment i, and segmentHashes[i] is the hash of
\* the bytes of segment i alone.
C1_SegmentsAsClaimed ==
    (calls # <<>> /\ LastCall.fn # "addUnqualifiedName"
        /\ LastCall.segmentCount = CountSegments(LastCall.text)
        /\ LastCall.segmentCount > 1 /\ found = <<>>)
    => LET id == LastCall.ident
           text == LastCall.text
       IN  /\ id.segmentCount = CountSegments(text)
           /\ \A i \in 0..(id.segmentCount - 1) :
                 /\ ReadU32(mem, id.segments.addr + SizeofU32 * i) = SegmentStart(text, i)
                 /\ ReadU32(mem, id.segmentHashes.addr + SizeofU32 * i)
                        = HashOf(SegmentBytes(text, i))

----------------------------------------------------------------------------
(* C2 *)

\* C2 (as claimed): the byte ranges Arena::alloc returned are pairwise disjoint, and
\* each lies wholly inside one chunk the arena owns.
C2_RangesAsClaimed ==
    ~destroyed =>
        /\ \A j, l \in DOMAIN allocs :
              j < l => \/ allocs[j].p + allocs[j].size <= allocs[l].p
                       \/ allocs[l].p + allocs[l].size <= allocs[j].p
        /\ \A a \in AllocSet :
              a.size > 0 =>
                 \E h \in heap : a.p >= h.base /\ a.p + a.size <= h.base + h.size

----------------------------------------------------------------------------
(* C3 *)

\* C3: every interning call returns the hash of the whole text as the Id, so two
\* calls with the same bytes return the same Id, whichever of addUnqualifiedName,
\* addQualifiedName and addQualifiedName with an explicit segment count made them.
C3_IdByContent ==
    /\ \A c \in CallSet : c.id = HashOf(c.text)
    /\ \A c, d \in CallSet : c.text = d.text => c.id = d.id

\* Two calls of different functions interned the same bytes, one of them as a
\* multi-segment name.
C3_Witness ==
    \E c, d \in CallSet :
        /\ c.text = d.text
        /\ c.fn = "addUnqualifiedName"
        /\ d.fn # "addUnqualifiedName"
        /\ d.ident.segmentCount > 1

----------------------------------------------------------------------------
(* C4 *)

\* C4: findOp(id) returns {9, Left} if addOp was never called with id and the
\* properties of the most recent addOp(id, ...) otherwise, and the operator table
\* holds exactly what the addOp calls put there: findOp leaves it alone.
C4_FindOp ==
    /\ \A op \in OpIds : findOp(op).ret = ExpectedOp(op)
    /\ opFound # <<>> => opFound[1].props = ExpectedOp(opFound[1].op)
    /\ DOMAIN ops = {opLog[j].op : j \in DOMAIN opLog}
    /\ \A op \in DOMAIN ops : ops[op] = ExpectedOp(op)

\* findOp has returned for an operator registered twice with different properties,
\* while the other operator was never registered.
C4_Witness ==
    /\ opFound # <<>>
    /\ \E j, l \in LoggedOps(opFound[1].op) :
          j < l /\ opLog[j].prec # opLog[l].prec /\ opLog[j].assoc # opLog[l].assoc
    /\ \E op \in OpIds : LoggedOps(op) = {}

----------------------------------------------------------------------------
(* C5 *)

\* C5 (as claimed): find(id), for the id an interning call returned for text t,
\* returns an Identifier with the bytes of t, textLength Len(t), and segmentCount 1
\* if the call was addUnqualifiedName and 1 + the number of '.' in t if it was the
\* two-argument addQualifiedName.
C5_RoundTripAsClaimed ==
    found # <<>> =>
        \A c \in CallSet :
            c.id = found[1].id =>
                LET f == found[1].ident
                IN  /\ Deref(mem, f.text, f.textLength) = c.text
                    /\ f.textLength = Len(c.text)
                    /\ c.fn = "addUnqualifiedName" => f.segmentCount = 1
                    /\ c.fn = "addQualifiedName"
                          => f.segmentCount = CountSegments(c.text)

----------------------------------------------------------------------------
(* C6 *)

\* C6 (as claimed): the text of every Identifier in the table lies in a byte range
\* the arena returned.
C6_AllTextInArena ==
    \A id \in DOMAIN identifiers :
        LET e == identifiers[id]
        IN  /\ e.text.space = "heap"
            /\ \E a \in AllocSet : InRange(e.text.addr, e.textLength, a)

\* C6 (amended): the text of every Identifier built by either addQualifiedName lies
\* in the byte range the arena returned to that call; an Identifier built by
\* addUnqualifiedName holds the pointer of the caller; and every Identifier in the
\* table is one or the other.
C6_QualifiedTextInArena ==
    /\ \A c \in CallSet :
          IF c.fn = "addUnqualifiedName"
          THEN c.ident.text = CallerPtr(c.chars)
          ELSE /\ c.ident.text.space = "heap"
               /\ Len(allocs) > c.allocsBefore
               /\ InRange(c.ident.text.addr, c.ident.textLength, allocs[c.allocsBefore + 1])
    /\ \A id \in DOMAIN identifiers :
          LET e == identifiers[id]
          IN  \/ /\ e.text.space = "heap"
                 /\ \E a \in AllocSet : InRange(e.text.addr, e.textLength, a)
              \/ /\ e.text.space = "caller"
                 /\ \E c \in CallSet : c.fn = "addUnqualifiedName" /\ c.ident = e

\* The table holds an Identifier of addUnqualifiedName, with the caller's pointer,
\* and one of the single-segment branch of addQualifiedName, with its copy.
C6_Witness ==
    /\ \E id \in DOMAIN identifiers : identifiers[id].text.space = "caller"
    /\ \E id \in DOMAIN identifiers :
          /\ identifiers[id].text.space = "heap"
          /\ identifiers[id].segmentCount = 1
          /\ Deref(mem, identifiers[id].text, identifiers[id].textLength) = Names[1]

----------------------------------------------------------------------------
(* C7 *)

\* C7: before teardown nothing is freed and buffers holds exactly the chunks malloc
\* returned to the arena, all of them live; teardown frees each of them exactly once
\* and nothing else, and leaves buffer and max null.
C7_ChunkLifetime ==
    /\ ~destroyed =>
          /\ freeLog = <<>>
          /\ buffers = obtained
          /\ {h.base : h \in heap} = {obtained[j] : j \in DOMAIN obtained}
    /\ destroyed =>
          /\ \A j \in DOMAIN obtained : Occurrences(freeLog, obtained[j]) = 1
          /\ \A j \in DOMAIN freeLog : Occurrences(obtained, freeLog[j]) = 1
          /\ heap = {}
          /\ buffers = <<>>
          /\ buffer = Null
          /\ max = Null

\* The arena was torn down after it had obtained three chunks.
C7_Witness == destroyed /\ Len(obtained) >= 3 /\ Len(freeLog) >= 3

----------------------------------------------------------------------------
(* C8 *)

\* C8: isTerminating is true of InstRet, InstJe and InstJmp and of no other kind,
\* and in a block closed by a single je, jmp or ret it is true of the last
\* instruction only.
C8_Terminating ==
    /\ \A kind \in Kinds :
          isTerminating(kind) <=> KindNames[kind + 1] \in {"InstRet", "InstJe", "InstJmp"}
    /\ closed =>
          \A j \in DOMAIN block : isTerminating(block[j]) <=> j = Len(block)

\* A closed block that holds a phi and another instruction before its terminator.
C8_Witness ==
    /\ closed
    /\ Len(block) >= 3
    /\ \E j \in DOMAIN block : block[j] = InstPhi

----------------------------------------------------------------------------
(* C9 *)

\* C9 (as claimed): a multi-segment name of n bytes and k segments makes one arena
\* allocation of n + 2*k*4 bytes that holds the k offsets, the k hashes and then the
\* n bytes of the text, and the block starts at a multiple of 4.
C9_LayoutAsClaimed ==
    (calls # <<>> /\ LastCall.fn # "addUnqualifiedName"
        /\ LastCall.ident.segmentCount > 1 /\ found = <<>>)
    => LET id == LastCall.ident
           k == id.segmentCount
           n == Len(LastCall.text)
       IN  /\ Len(allocs) = LastCall.allocsBefore + 1
           /\ LastAlloc.size = n + 2 * k * SizeofU32
           /\ id.segments.addr = LastAlloc.p
           /\ id.segmentHashes.addr = LastAlloc.p + k * SizeofU32
           /\ id.text.addr = LastAlloc.p + 2 * k * SizeofU32
           /\ id.textLength = n
           /\ Deref(mem, id.text, n) = LastCall.text
           /\ LastAlloc.p % SizeofU32 = 0

----------------------------------------------------------------------------
(* C10 *)

\* C10 (as claimed): Arena::alloc(size) obtains a chunk of kChunkSize bytes exactly
\* when size exceeds the bytes left in the current chunk; it returns the start of
\* the new chunk in that case and the former bump pointer otherwise; the bump
\* pointer advances by size and stays within the current chunk.
C10_BumpAsClaimed ==
    (allocs # <<>> /\ ~destroyed)
    => LET a == LastAlloc
       IN  /\ a.malloced <=> a.size > a.maxBefore - a.before
           /\ a.malloced =>
                 /\ a.p = obtained[Len(obtained)]
                 /\ [base |-> a.p, size |-> kChunkSize] \in heap
                 /\ max = a.p + kChunkSize
           /\ ~a.malloced => a.p = a.before /\ max = a.maxBefore
           /\ buffer = a.p + a.size
           /\ buffer <= max
           /\ buffer >= max - kChunkSize

====
